---- MODULE Spec2Model ----
(***************************************************************************)
(* Touring-route optimizer of theme_park_mcp (data/touring.py).            *)
(*                                                                         *)
(* One call of optimize_route is modelled as a state machine: the inputs   *)
(* are drawn in Init, and the body of the function is cut into the steps   *)
(* Filter, Group, Order, VisitRide, LandCheck and Return.  Optional ints   *)
(* (wait_time, max_total_time, priority_score) use None; ride and must_do  *)
(* names are tuples of one-character strings so that lower() and the       *)
(* substring test are computed, not assumed.                               *)
(***************************************************************************)
EXTENDS Integers, Sequences, FiniteSets, TLC

\* ---------------------------------------------------------------- bounds
\* Longest ride list handed to optimize_route.
MaxRides == 3

\* ------------------------------------------------------------- constants
\* Python's None for an optional integer (wait_time, max_total_time,
\* priority_score); real values are non-negative.
None == -1

\* current_land = None before the first ride is emitted.
NoLand == "<None>"

\* must_do = None; a given list l is <<l>>.
NoMustDo == <<>>

\* result before the call returns.
NoResult == <<>>

DefaultWalkUnknownPark == 5

DefaultWalkUnknownRoute == 7

\* calculate_historical_priority's neutral multiplier 1.0, in tenths.
NeutralPriority == 10

\* ------------------------------------------------------- park topology
MS == "Main Street, U.S.A."

WalkTimes6 ==
  (<<MS, "Adventureland">> :> 3) @@
  (<<MS, "Tomorrowland">> :> 3) @@
  (<<"Adventureland", "Frontierland">> :> 3) @@
  (<<"Frontierland", "Liberty Square">> :> 2) @@
  (<<"Liberty Square", "Fantasyland">> :> 3) @@
  (<<"Fantasyland", "Tomorrowland">> :> 4) @@
  (<<MS, "Frontierland">> :> 6) @@
  (<<MS, "Liberty Square">> :> 7) @@
  (<<MS, "Fantasyland">> :> 8) @@
  (<<"Adventureland", "Liberty Square">> :> 5) @@
  (<<"Adventureland", "Fantasyland">> :> 8) @@
  (<<"Adventureland", "Tomorrowland">> :> 10) @@
  (<<"Frontierland", "Fantasyland">> :> 5) @@
  (<<"Frontierland", "Tomorrowland">> :> 9) @@
  (<<"Liberty Square", "Tomorrowland">> :> 7)

WalkTimes5 ==
  (<<"World Celebration", "World Discovery">> :> 5) @@
  (<<"World Celebration", "World Nature">> :> 5) @@
  (<<"World Discovery", "World Showcase">> :> 8) @@
  (<<"World Nature", "World Showcase">> :> 8) @@
  (<<"World Celebration", "World Showcase">> :> 12) @@
  (<<"World Discovery", "World Nature">> :> 10)

GE == "Star Wars: Galaxy's Edge"

WalkTimes7 ==
  (<<"Hollywood Boulevard", "Echo Lake">> :> 3) @@
  (<<"Hollywood Boulevard", "Sunset Boulevard">> :> 3) @@
  (<<"Echo Lake", GE>> :> 5) @@
  (<<"Sunset Boulevard", "Toy Story Land">> :> 6) @@
  (<<GE, "Toy Story Land">> :> 5) @@
  (<<GE, "Grand Avenue">> :> 3) @@
  (<<"Grand Avenue", "Hollywood Boulevard">> :> 4) @@
  (<<"Hollywood Boulevard", GE>> :> 8) @@
  (<<"Hollywood Boulevard", "Toy Story Land">> :> 9) @@
  (<<"Echo Lake", "Toy Story Land">> :> 10) @@
  (<<"Echo Lake", "Sunset Boulevard">> :> 6) @@
  (<<"Sunset Boulevard", GE>> :> 10) @@
  (<<"Sunset Boulevard", "Grand Avenue">> :> 7) @@
  (<<"Echo Lake", "Grand Avenue">> :> 6)

PA == "Pandora - The World of Avatar"

WalkTimes8 ==
  (<<"Oasis", "Discovery Island">> :> 3) @@
  (<<"Discovery Island", "Africa">> :> 4) @@
  (<<"Discovery Island", "Asia">> :> 5) @@
  (<<"Discovery Island", PA>> :> 4) @@
  (<<"Discovery Island", "DinoLand U.S.A.">> :> 5) @@
  (<<"Africa", "Asia">> :> 6) @@
  (<<"Asia", "DinoLand U.S.A.">> :> 4) @@
  (<<"Oasis", "Africa">> :> 7) @@
  (<<"Oasis", "Asia">> :> 8) @@
  (<<"Oasis", PA>> :> 7) @@
  (<<"Oasis", "DinoLand U.S.A.">> :> 8) @@
  (<<"Africa", PA>> :> 8) @@
  (<<"Africa", "DinoLand U.S.A.">> :> 9) @@
  (<<"Asia", PA>> :> 9) @@
  (<<PA, "DinoLand U.S.A.">> :> 9)

DA == "The Wizarding World of Harry Potter - Diagon Alley"

KZ == "Woody Woodpecker's KidZone"

WalkTimes64 ==
  (<<"Production Central", "New York">> :> 3) @@
  (<<"Production Central", "Hollywood">> :> 3) @@
  (<<"New York", "San Francisco">> :> 4) @@
  (<<"San Francisco", DA>> :> 3) @@
  (<<DA, "World Expo">> :> 4) @@
  (<<"World Expo", "Springfield">> :> 3) @@
  (<<"Springfield", KZ>> :> 3) @@
  (<<KZ, "Hollywood">> :> 4)

HM == "The Wizarding World of Harry Potter - Hogsmeade"

WalkTimes65 ==
  (<<"Port of Entry", "Marvel Super Hero Island">> :> 3) @@
  (<<"Port of Entry", "Seuss Landing">> :> 3) @@
  (<<"Marvel Super Hero Island", "Toon Lagoon">> :> 4) @@
  (<<"Toon Lagoon", "Skull Island">> :> 3) @@
  (<<"Skull Island", "Jurassic Park">> :> 4) @@
  (<<"Jurassic Park", HM>> :> 4) @@
  (<<HM, "The Lost Continent">> :> 3) @@
  (<<"The Lost Continent", "Seuss Landing">> :> 4)

\* The module-level table; no statement of the module assigns to it.
PARK_LAYOUTS ==
  (6 :> [walk_times |-> WalkTimes6, entry_land |-> MS]) @@
  (5 :> [walk_times |-> WalkTimes5, entry_land |-> "World Celebration"]) @@
  (7 :> [walk_times |-> WalkTimes7, entry_land |-> "Hollywood Boulevard"]) @@
  (8 :> [walk_times |-> WalkTimes8, entry_land |-> "Oasis"]) @@
  (64 :> [walk_times |-> WalkTimes64, entry_land |-> "Production Central"]) @@
  (65 :> [walk_times |-> WalkTimes65, entry_land |-> "Port of Entry"])

\* get_walk_time with the two default estimates exchanged.
get_walk_time_SwappedDefaults(park_id, from_land, to_land) ==
  IF from_land = to_land THEN 0
  ELSE IF park_id \notin DOMAIN PARK_LAYOUTS THEN DefaultWalkUnknownRoute
  ELSE LET walk_times == PARK_LAYOUTS[park_id].walk_times
           key1 == <<from_land, to_land>>
           key2 == <<to_land, from_land>>
       IN  IF key1 \in DOMAIN walk_times THEN walk_times[key1]
           ELSE IF key2 \in DOMAIN walk_times THEN walk_times[key2]
           ELSE DefaultWalkUnknownPark

\* get_walk_time that looks the pair up as given only (no key2).
get_walk_time_OneDirection(park_id, from_land, to_land) ==
  IF from_land = to_land THEN 0
  ELSE IF park_id \notin DOMAIN PARK_LAYOUTS THEN DefaultWalkUnknownPark
  ELSE LET walk_times == PARK_LAYOUTS[park_id].walk_times
           key1 == <<from_land, to_land>>
       IN  IF key1 \in DOMAIN walk_times THEN walk_times[key1]
           ELSE DefaultWalkUnknownRoute

get_walk_time(park_id, from_land, to_land) ==
  IF from_land = to_land THEN 0
  ELSE IF park_id \notin DOMAIN PARK_LAYOUTS THEN DefaultWalkUnknownPark
  ELSE LET walk_times == PARK_LAYOUTS[park_id].walk_times
           key1 == <<from_land, to_land>>
           key2 == <<to_land, from_land>>
       IN  IF key1 \in DOMAIN walk_times THEN walk_times[key1]
           ELSE IF key2 \in DOMAIN walk_times THEN walk_times[key2]
           ELSE DefaultWalkUnknownRoute

\* NearestLands that measures from the park's entry land, not from `origin`.
NearestLands_FromEntry(park_id, origin, candidates) ==
  {l \in candidates :
     \A o \in candidates :
       get_walk_time(park_id, PARK_LAYOUTS[park_id].entry_land, l)
         <= get_walk_time(park_id, PARK_LAYOUTS[park_id].entry_land, o)}

\* min(candidates, key = walk time from `origin`) over a set: Python returns
\* the first minimal element in the set's iteration order, which the
\* language leaves unspecified (string hashes are salted per process), so
\* any minimal element can be the one returned.
NearestLands(park_id, origin, candidates) ==
  {l \in candidates :
     \A o \in candidates :
       get_walk_time(park_id, origin, l) <= get_walk_time(park_id, origin, o)}

RECURSIVE NearestNeighbor(_, _, _)
\* The `while remaining` loop: every sequence the loop can append.
NearestNeighbor(park_id, current, remaining) ==
  IF remaining = {} THEN {<<>>}
  ELSE UNION {
         {<<next_land>> \o tail :
            tail \in NearestNeighbor(park_id, next_land, remaining \ {next_land})} :
         next_land \in NearestLands(park_id, current, remaining)}

RECURSIVE Orderings(_)
\* list(s) for a set s: every iteration order.
Orderings(s) ==
  IF s = {} THEN {<<>>}
  ELSE UNION {{<<x>> \o tail : tail \in Orderings(s \ {x})} : x \in s}

\* StartLands that starts from whichever land the set yields first.
StartLands_AnyLand(park_id, lands_to_visit) == lands_to_visit

\* Lines 215-225: the lands `current` can start as, for a park with a layout.
StartLands(park_id, lands_to_visit) ==
  LET entry == PARK_LAYOUTS[park_id].entry_land
  IN  IF entry \in lands_to_visit THEN {entry}
      ELSE NearestLands(park_id, entry, lands_to_visit)

\* RemainingAfter that leaves the current land among the remaining ones.
RemainingAfter_KeepsCurrent(lands_to_visit, current) == lands_to_visit

\* Line 228: remaining = lands_to_visit - {current}, a new set.
RemainingAfter(lands_to_visit, current) == lands_to_visit \ {current}

\* The set of lists get_land_order can return for a non-empty set of lands.
get_land_order(park_id, lands_to_visit) ==
  IF park_id \notin DOMAIN PARK_LAYOUTS THEN Orderings(lands_to_visit)
  ELSE UNION {
         {<<current>> \o tail :
            tail \in NearestNeighbor(park_id, current,
                                     RemainingAfter(lands_to_visit, current))} :
         current \in StartLands(park_id, lands_to_visit)}

\* ----------------------------------------------------------------- text
UpperCase == <<"A", "B", "C", "D", "E", "F", "G", "H", "I", "J", "K", "L", "M",
               "N", "O", "P", "Q", "R", "S", "T", "U", "V", "W", "X", "Y", "Z">>

LowerCase == <<"a", "b", "c", "d", "e", "f", "g", "h", "i", "j", "k", "l", "m",
               "n", "o", "p", "q", "r", "s", "t", "u", "v", "w", "x", "y", "z">>

\* Upper-case letter -> its lower-case letter.
LowerOf ==
  [c \in {UpperCase[k] : k \in 1..Len(UpperCase)} |->
     LowerCase[CHOOSE k \in 1..Len(UpperCase) : UpperCase[k] = c]]

\* str.lower() on one character.
LowerChar(c) == IF c \in DOMAIN LowerOf THEN LowerOf[c] ELSE c

\* str.lower()
lower(s) == [k \in 1..Len(s) |-> LowerChar(s[k])]

\* Python's `sub in s` for strings.
Contains(s, sub) ==
  \E k \in 0..(Len(s) - Len(sub)) : SubSeq(s, k + 1, k + Len(sub)) = sub

\* ----------------------------------------------------------- input pools
SpaceMountain == <<"S", "p", "a", "c", "e", " ", "M", "o", "u", "n", "t", "a", "i", "n">>

JungleCruise == <<"J", "u", "n", "g", "l", "e", " ", "C", "r", "u", "i", "s", "e">>

PiratesOfTheCaribbean == <<"P", "i", "r", "a", "t", "e", "s", " ", "o", "f", " ", "t", "h", "e", " ", "C", "a", "r", "i", "b", "b", "e", "a", "n">>

BigThunderMountain == <<"B", "i", "g", " ", "T", "h", "u", "n", "d", "e", "r", " ", "M", "o", "u", "n", "t", "a", "i", "n">>

\* The rides the live feed can list: id, name and land as parse_wait_times
\* builds them (each ride of the feed once).
RidePool == <<
  [id |-> 1, name |-> SpaceMountain, land |-> "Tomorrowland"],
  [id |-> 2, name |-> JungleCruise, land |-> "Adventureland"],
  [id |-> 3, name |-> PiratesOfTheCaribbean, land |-> "Adventureland"],
  [id |-> 4, name |-> BigThunderMountain, land |-> "Frontierland"] >>

\* is_open and wait_time of one ride of the feed.
RideStatus == {
  [is_open |-> FALSE, wait_time |-> 0],
  [is_open |-> TRUE, wait_time |-> None],
  [is_open |-> TRUE, wait_time |-> 10],
  [is_open |-> TRUE, wait_time |-> 45] }

\* A ride dict; priority_score = None stands for "the dict has no such key".
Ride(p, st) ==
  [id |-> RidePool[p].id, name |-> RidePool[p].name, land |-> RidePool[p].land,
   is_open |-> st.is_open, wait_time |-> st.wait_time, priority_score |-> None]

RideLists ==
  UNION {
    {[k \in 1..n |-> Ride(ps[k], sts[k])] :
       ps \in {f \in [1..n -> 1..Len(RidePool)] :
                 \A a, b \in 1..n : a # b => f[a] # f[b]},
       sts \in [1..n -> RideStatus]} :
    n \in 0..MaxRides}

\* Magic Kingdom, and a park id with no entry in PARK_LAYOUTS.
ParkIds == {6, 99}

\* must_do: None, one term no pool name contains, and two terms of which one
\* (in another case than the names) is contained in two names.
MustDoLists == {
  NoMustDo,
  <<<<<<"h", "a", "u", "n", "t", "e", "d">>>>>>,
  <<<<<<"h", "a", "u", "n", "t", "e", "d">>, <<"M", "O", "U", "N", "T", "A", "I", "N">>>>>> }

\* None, 0 and a budget that some routes exceed.
Budgets == {None, 0, 30}

\* datetime.now().hour when the call runs.
Hours == {9, 14}

\* historical_averages: None, or a table from get_ride_averages_for_park.
HistoricalTables == {"None", "averages"}

\* ------------------------------------------------- state of one call
VARIABLES park_id, rides, must_do, max_total_time,
          pc, available_rides, rides_by_land, land_order,
          route, total_wait_time, total_walk_time, current_land,
          land_idx, ride_idx, result

\* Calls of the other functions, each checked under a specification of its
\* own: the arguments, position and locals of a get_walk_time pair of calls,
\* of a get_land_order call and of a compare_to_average call.
VARIABLES walk_call, order_call, compare_call

\* The value of a call variable under a specification that makes no such
\* call.
NoCall == [pc |-> "idle"]

\* Two calls of optimize_route running at once: the frame of each call, the
\* ride lists the callers passed and the rides_by_land dicts the calls made.
VARIABLES frames, ride_lists, land_dicts
threadVars == <<frames, ride_lists, land_dicts>>
NoThreads == frames = <<>> /\ ride_lists = <<>> /\ land_dicts = <<>>
\* The wait_times table of the history database and the last query on it.
VARIABLES wait_times, query_call
histVars == <<wait_times, query_call>>
NoHistory == wait_times = <<>> /\ query_call = NoCall
\* The scoring and sorting of the rides of one land, looked at on its own.
VARIABLES sort_call
others == <<walk_call, order_call, compare_call, threadVars, histVars,
            sort_call>>

routeVars == <<park_id, rides, must_do, max_total_time,
               pc, available_rides, rides_by_land, land_order,
               route, total_wait_time, total_walk_time, current_land,
               land_idx, ride_idx, result>>

vars == <<routeVars, others>>

inputs == <<park_id, must_do, max_total_time>>

\* ------------------------------------------------------ optimize_route
\* calculate_historical_priority that boosts one ride when a table of
\* averages is passed.
calculate_historical_priority_FromTable(ride_name, current_hour, averages) ==
  IF averages = "averages" /\ ride_name = JungleCruise
  THEN 15 ELSE NeutralPriority

\* Always the neutral multiplier, whatever its arguments.
calculate_historical_priority(ride_name, current_hour, historical_averages) ==
  NeutralPriority

\* Line 332: wait_time * (0.7 + 0.3 * historical_priority), in hundredths
\* of a minute for a multiplier in tenths.
Score(wait_time, historical_priority) ==
  wait_time * (70 + 3 * historical_priority)

\* Lines 324-332: the priority_score of a ride.
PriorityScore(ride, current_hour, historical_averages) ==
  Score(ride.wait_time,
        calculate_historical_priority(ride.name, current_hour,
                                      historical_averages))

\* Indices 1..n as a list.
Indices(n) == [k \in 1..n |-> k]

\* OpenRides without the is_open test.
OpenRides_KeepsClosed(rs) ==
  LET Keep(k) == rs[k].wait_time # None
  IN  SelectSeq(Indices(Len(rs)), Keep)

\* OpenRides without the wait_time test.
OpenRides_KeepsNullWait(rs) ==
  LET Keep(k) == rs[k].is_open
  IN  SelectSeq(Indices(Len(rs)), Keep)

\* The list comprehension of lines 290-293, as the positions of the kept
\* dicts in `rs` (the new list holds the same dict objects).
OpenRides(rs) ==
  LET Keep(k) == rs[k].is_open /\ rs[k].wait_time # None
  IN  SelectSeq(Indices(Len(rs)), Keep)

\* `if must_do:` -- neither None nor the empty list.
MustDoGiven(md) == md # NoMustDo /\ md[1] # <<>>

\* MatchesMustDo with the ride name left in its own case.
MatchesMustDo_CaseSensitive(ride_name, terms) ==
  \E t \in 1..Len(terms) : Contains(ride_name, lower(terms[t]))

\* Some must_do term, lowered, is a substring of the lowered ride name.
MatchesMustDo(ride_name, terms) ==
  \E t \in 1..Len(terms) : Contains(lower(ride_name), lower(terms[t]))

SelectedRides(rs, idxs, terms) ==
  LET Keep(k) == MatchesMustDo(rs[k].name, terms)
  IN  SelectSeq(idxs, Keep)

\* AvailableRides without the fallback on an empty selection.
AvailableRides_NoFallback(rs, md) ==
  LET open == OpenRides(rs)
  IN  IF MustDoGiven(md) THEN SelectedRides(rs, open, md[1]) ELSE open

\* available_rides after lines 290-305.
AvailableRides(rs, md) ==
  LET open == OpenRides(rs)
  IN  IF MustDoGiven(md)
      THEN LET selected_rides == SelectedRides(rs, open, md[1])
           IN  IF selected_rides # <<>> THEN selected_rides ELSE open
      ELSE open

FailureResult ==
  [success |-> FALSE, error |-> "No matching rides available", route |-> <<>>,
   total_wait_time |-> 0, total_walk_time |-> 0, total_time |-> 0]

\* BudgetExceeded that already stops at a total equal to the budget.
BudgetExceeded_AtLimit(budget, total) ==
  budget # None /\ budget # 0 /\ total >= budget

\* `max_total_time and total > max_total_time`: None and 0 are both falsy.
BudgetExceeded(budget, total) ==
  budget # None /\ budget # 0 /\ total > budget

RECURSIVE SortByScore_Descending(_, _)
\* SortByScore with the greatest score first.
SortByScore_Descending(idxs, rs) ==
  IF idxs = <<>> THEN <<>>
  ELSE LET first == CHOOSE k \in 1..Len(idxs) :
                      /\ \A j \in 1..Len(idxs) :
                           rs[idxs[k]].priority_score >= rs[idxs[j]].priority_score
                      /\ \A j \in 1..(k - 1) :
                           rs[idxs[j]].priority_score < rs[idxs[k]].priority_score
           rest == [j \in 1..(Len(idxs) - 1) |->
                      IF j < first THEN idxs[j] ELSE idxs[j + 1]]
       IN  <<idxs[first]>> \o SortByScore_Descending(rest, rs)

RECURSIVE SortByScore(_, _)
\* list.sort(key = priority_score): stable, ascending.
SortByScore(idxs, rs) ==
  IF idxs = <<>> THEN <<>>
  ELSE LET first == CHOOSE k \in 1..Len(idxs) :
                      /\ \A j \in 1..Len(idxs) :
                           rs[idxs[k]].priority_score <= rs[idxs[j]].priority_score
                      /\ \A j \in 1..(k - 1) :
                           rs[idxs[j]].priority_score > rs[idxs[k]].priority_score
           rest == [j \in 1..(Len(idxs) - 1) |->
                      IF j < first THEN idxs[j] ELSE idxs[j + 1]]
       IN  <<idxs[first]>> \o SortByScore(rest, rs)

\* Lines 318-333: every available dict gets its priority_score key.
ScoredRides(rs, avail, current_hour, historical_averages) ==
  [k \in 1..Len(rs) |->
     IF \E a \in 1..Len(avail) : avail[a] = k
     THEN [rs[k] EXCEPT !.priority_score =
             PriorityScore(rs[k], current_hour, historical_averages)]
     ELSE rs[k]]

\* Lines 318-337: the available rides of each land, sorted by score.
GroupByLand(rs, avail) ==
  [land \in {rs[avail[a]].land : a \in 1..Len(avail)} |->
     LET InLand(k) == rs[k].land = land
     IN  SortByScore(SelectSeq(avail, InLand), rs)]

Init ==
  /\ park_id \in ParkIds
  /\ rides \in RideLists
  /\ must_do \in MustDoLists
  /\ max_total_time \in Budgets
  /\ pc = "filter"
  /\ available_rides = <<>>
  /\ rides_by_land = <<>>
  /\ land_order = <<>>
  /\ route = <<>>
  /\ total_wait_time = 0
  /\ total_walk_time = 0
  /\ current_land = NoLand
  /\ land_idx = 0
  /\ ride_idx = 0
  /\ result = NoResult
  /\ walk_call = NoCall
  /\ order_call = NoCall
  /\ compare_call = NoCall
  /\ NoThreads
  /\ NoHistory
  /\ sort_call = NoCall

\* The name of a ride dict that has no "name" key; reading it raises
\* KeyError.  (No name of one-character strings equals it.)
NoName == <<"<missing>">>

\* The call left by an exception instead of a return.
KeyErrorRaised == [raised |-> "KeyError"]

\* Whether some dict at the positions `idxs` of `rs` has no name.
SomeNameMissing(rs, idxs) ==
  \E a \in 1..Len(idxs) : rs[idxs[a]].name = NoName

\* Lines 290-315.  With must_do given, line 300 reads the name of every open
\* ride with a wait.
Filter ==
  /\ pc = "filter"
  /\ IF MustDoGiven(must_do) /\ SomeNameMissing(rides, OpenRides(rides))
     THEN /\ available_rides' = OpenRides(rides)
          /\ result' = KeyErrorRaised
          /\ pc' = "done"
     ELSE /\ available_rides' = AvailableRides(rides, must_do)
          /\ IF available_rides' = <<>>
             THEN /\ result' = FailureResult
                  /\ pc' = "done"
             ELSE /\ result' = result
                  /\ pc' = "group"
  /\ UNCHANGED <<others, inputs, rides, rides_by_land, land_order, route,
                 total_wait_time, total_walk_time, current_land,
                 land_idx, ride_idx>>

\* The rides of `avail` that come before the first one without a name.
BeforeMissingName(rs, avail) ==
  SubSeq(avail, 1,
         (CHOOSE a \in 1..Len(avail) :
            /\ rs[avail[a]].name = NoName
            /\ \A b \in 1..(a - 1) : rs[avail[b]].name # NoName) - 1)

\* Lines 284-287 and 318-337.  Line 326 reads the name of each available
\* ride before line 332 writes its score.
Group ==
  /\ pc = "group"
  /\ \E current_hour \in Hours, historical_averages \in HistoricalTables :
       IF SomeNameMissing(rides, available_rides)
       THEN /\ rides' = ScoredRides(rides,
                                    BeforeMissingName(rides, available_rides),
                                    current_hour, historical_averages)
            /\ rides_by_land' = rides_by_land
            /\ result' = KeyErrorRaised
            /\ pc' = "done"
       ELSE /\ rides' = ScoredRides(rides, available_rides, current_hour,
                                    historical_averages)
            /\ rides_by_land' = GroupByLand(rides', available_rides)
            /\ result' = result
            /\ pc' = "order"
  /\ UNCHANGED <<others, inputs, available_rides, land_order, route,
                 total_wait_time, total_walk_time, current_land,
                 land_idx, ride_idx>>

\* Lines 339-346.
Order ==
  /\ pc = "order"
  /\ land_order' \in get_land_order(park_id, DOMAIN rides_by_land)
  /\ route' = <<>>
  /\ total_wait_time' = 0
  /\ total_walk_time' = 0
  /\ current_land' = NoLand
  /\ land_idx' = 1
  /\ ride_idx' = 1
  /\ pc' = "route"
  /\ UNCHANGED <<others, inputs, rides, available_rides, rides_by_land, result>>

\* `if current_land`: None and the empty string are both falsy.
LandGiven(land) == land # NoLand /\ land # ""

\* RouteItem whose cumulative_time is the total before this ride's wait.
RouteItem_TotalBeforeRide(ride, land, wait_time, current_total) ==
  [name |-> ride.name, land |-> land, wait_time |-> wait_time,
   walk_from_previous |->
     IF LandGiven(current_land)
     THEN get_walk_time(park_id, current_land, land)
     ELSE 0,
   cumulative_time |-> current_total - wait_time]

\* Lines 365-371.
RouteItem(ride, land, wait_time, current_total) ==
  [name |-> ride.name, land |-> land, wait_time |-> wait_time,
   walk_from_previous |->
     IF LandGiven(current_land)
     THEN get_walk_time(park_id, current_land, land)
     ELSE 0,
   cumulative_time |-> current_total]

\* One iteration of the inner loop, lines 351-373.
VisitRide ==
  /\ pc = "route"
  /\ LET land == land_order[land_idx]
         land_rides == rides_by_land[land]
         ride == rides[land_rides[ride_idx]]
         walk == IF LandGiven(current_land) /\ current_land # land
                 THEN total_walk_time + get_walk_time(park_id, current_land, land)
                 ELSE total_walk_time
         wait_time == ride.wait_time
         wait == total_wait_time + wait_time
         current_total == wait + walk
     IN  /\ total_walk_time' = walk
         /\ total_wait_time' = wait
         /\ IF BudgetExceeded(max_total_time, current_total)
            THEN /\ pc' = "land_check"
                 /\ UNCHANGED <<route, current_land, ride_idx>>
            ELSE /\ route' = Append(route, RouteItem(ride, land, wait_time,
                                                     current_total))
                 /\ current_land' = land
                 /\ ride_idx' = ride_idx + 1
                 /\ pc' = IF ride_idx < Len(land_rides) THEN "route"
                          ELSE "land_check"
  /\ UNCHANGED <<others, inputs, rides, available_rides, rides_by_land, land_order,
                 land_idx, result>>

\* Lines 375-377 and the advance of the outer loop.
LandCheck ==
  /\ pc = "land_check"
  /\ IF BudgetExceeded(max_total_time, total_wait_time + total_walk_time)
     THEN /\ pc' = "return"
          /\ UNCHANGED <<land_idx, ride_idx>>
     ELSE IF land_idx < Len(land_order)
     THEN /\ land_idx' = land_idx + 1
          /\ ride_idx' = 1
          /\ pc' = "route"
     ELSE /\ pc' = "return"
          /\ UNCHANGED <<land_idx, ride_idx>>
  /\ UNCHANGED <<others, inputs, rides, available_rides, rides_by_land, land_order,
                 route, total_wait_time, total_walk_time, current_land, result>>

\* SuccessResult that counts the lands of land_order, not those of route.
SuccessResult_CountsPlannedLands ==
  [success |-> TRUE, route |-> route,
   total_wait_time |-> total_wait_time,
   total_walk_time |-> total_walk_time,
   total_time |-> total_wait_time + total_walk_time,
   ride_count |-> Len(route),
   lands_visited |-> Len(land_order)]

\* Lines 379-387.
SuccessResult ==
  [success |-> TRUE, route |-> route,
   total_wait_time |-> total_wait_time,
   total_walk_time |-> total_walk_time,
   total_time |-> total_wait_time + total_walk_time,
   ride_count |-> Len(route),
   lands_visited |-> Cardinality({route[k].land : k \in 1..Len(route)})]

Return ==
  /\ pc = "return"
  /\ result' = SuccessResult
  /\ pc' = "done"
  /\ UNCHANGED <<others, inputs, rides, available_rides, rides_by_land, land_order,
                 route, total_wait_time, total_walk_time, current_land,
                 land_idx, ride_idx>>

Next == Filter \/ Group \/ Order \/ VisitRide \/ LandCheck \/ Return

Spec == Init /\ [][Next]_vars

\* ------------------------------------------------------------ properties
Done == pc = "done"

RECURSIVE SumWaitTimes(_)
SumWaitTimes(items) ==
  IF items = <<>> THEN 0
  ELSE items[1].wait_time + SumWaitTimes(Tail(items))

\* Positions of the input rides that are open and have a wait time.
Candidates ==
  {k \in 1..Len(rides) : rides[k].is_open /\ rides[k].wait_time # None}

\* Case-insensitive substring match of a name against some given term.
HasMustDoTerm(name) ==
  /\ must_do # NoMustDo
  /\ LET lowered == lower(name)
     IN  \E t \in 1..Len(must_do[1]) :
           LET term == lower(must_do[1][t])
           IN  \E k \in 1..(Len(name) - Len(term) + 1) :
                 \A c \in 1..Len(term) : lowered[k + c - 1] = term[c]

Matching == {k \in Candidates : HasMustDoTerm(rides[k].name)}

\* The rides the route is to hold when nothing is truncated.
Expected == IF Matching # {} THEN Matching ELSE Candidates

\* The route holds the ride at position k of the input exactly once.
OnceInRoute(k) ==
  Cardinality({j \in 1..Len(result.route) :
                 /\ result.route[j].name = rides[k].name
                 /\ result.route[j].land = rides[k].land
                 /\ result.route[j].wait_time = rides[k].wait_time}) = 1

\* Every item of the route is one of the rides at the positions in `ks`.
OnlyFrom(ks) ==
  \A j \in 1..Len(result.route) :
    \E k \in ks : result.route[j].name = rides[k].name

\* C1: in every returned result total_wait_time is the sum of wait_time
\* over the items of route.
C1_TotalWaitIsRouteSum ==
  Done => result.total_wait_time = SumWaitTimes(result.route)

\* C2: when max_total_time is given, the returned total_time does not
\* exceed it.  Stated for the positive budgets, where the code does apply
\* the budget (a budget of 0 is the case of C3).
C2_TotalTimeWithinBudget ==
  (Done /\ max_total_time # None /\ max_total_time > 0) =>
    result.total_time <= max_total_time

\* C3: when max_total_time is given (0 included), every item of the route
\* has cumulative_time <= max_total_time.
C3_ItemsWithinBudget ==
  (Done /\ max_total_time # None) =>
    \A j \in 1..Len(result.route) :
      result.route[j].cumulative_time <= max_total_time

\* C4: with max_total_time omitted, the route holds every open ride with a
\* wait time (after must-do filtering) exactly once, and no other ride.
C4_NoBudgetCompleteness ==
  (Done /\ max_total_time = None) =>
    /\ \A k \in Expected : OnceInRoute(k)
    /\ OnlyFrom(Expected)
    /\ Len(result.route) = Cardinality(Expected)

C4_Witness ==
  /\ Done /\ max_total_time = None
  /\ Len(rides) = 3 /\ Cardinality(Candidates) = 2
  /\ \E k \in 1..Len(rides) : ~rides[k].is_open
  /\ Len(result.route) = 2

\* C5: with no ride both open and with a wait time, the call returns the
\* failure result: success false, the error text, an empty route, totals 0.
C5_NoCandidatesFails ==
  (Done /\ Candidates = {}) =>
    /\ result.success = FALSE
    /\ result.error = "No matching rides available"
    /\ result.route = <<>>
    /\ result.total_wait_time = 0
    /\ result.total_walk_time = 0
    /\ result.total_time = 0

C5_Witness ==
  /\ Done /\ Candidates = {} /\ Len(rides) = 2
  /\ \A k \in 1..Len(rides) : ~rides[k].is_open
  /\ result.success = FALSE

\* C6 as claimed: must_do given and no open ride with a wait time matches
\* any term => success, and with no budget every such ride is in the route.
C6_FallbackAlwaysSucceeds ==
  (Done /\ must_do # NoMustDo /\ Matching = {}) =>
    /\ result.success
    /\ max_total_time = None => \A k \in Candidates : OnceInRoute(k)

\* C6 amended: the same, given that at least one ride is open with a wait
\* time.
C6_FallbackToAllCandidates ==
  (Done /\ must_do # NoMustDo /\ Matching = {} /\ Candidates # {}) =>
    /\ result.success
    /\ max_total_time = None =>
         /\ \A k \in Candidates : OnceInRoute(k)
         /\ Len(result.route) = Cardinality(Candidates)

C6_Witness ==
  /\ Done /\ must_do # NoMustDo /\ Matching = {}
  /\ Cardinality(Candidates) = 2 /\ max_total_time = None
  /\ result.success /\ Len(result.route) = 2

\* C7: must_do given and some open ride with a wait time matches a term =>
\* every ride of the route matches a term, and with no budget the route is
\* exactly the matching rides.
C7_MustDoSelectsMatches ==
  (Done /\ must_do # NoMustDo /\ Matching # {}) =>
    /\ \A j \in 1..Len(result.route) : HasMustDoTerm(result.route[j].name)
    /\ max_total_time = None =>
         /\ \A k \in Matching : OnceInRoute(k)
         /\ OnlyFrom(Matching)
         /\ Len(result.route) = Cardinality(Matching)

C7_Witness ==
  /\ Done /\ must_do # NoMustDo /\ max_total_time = None
  /\ Cardinality(Matching) = 2 /\ Cardinality(Candidates) = 3
  /\ Len(result.route) = 2

\* C8: a call leaves the rides list and every ride record in it as they
\* were (PARK_LAYOUTS is a constant of the module: nothing assigns to it).
C8_RidesUnchanged == [][rides' = rides]_vars

\* C9: for a given park and set of lands get_land_order has one possible
\* result, whatever the iteration order of the set.
C9_LandOrderReproducible ==
  pc = "order" =>
    Cardinality(get_land_order(park_id, DOMAIN rides_by_land)) = 1

\* C10: park 6, Space Mountain (Tomorrowland, open, 45) and Jungle Cruise
\* (Adventureland, open, 10), no must_do, no budget: Adventureland's ride
\* comes before Tomorrowland's in the route.
C10_AdventurelandFirst ==
  ( /\ Done /\ park_id = 6 /\ must_do = NoMustDo /\ max_total_time = None
    /\ Len(rides) = 2
    /\ rides[1].name = SpaceMountain /\ rides[1].land = "Tomorrowland"
    /\ rides[1].is_open /\ rides[1].wait_time = 45
    /\ rides[2].name = JungleCruise /\ rides[2].land = "Adventureland"
    /\ rides[2].is_open /\ rides[2].wait_time = 10 ) =>
    /\ Len(result.route) = 2
    /\ result.route[1].land = "Adventureland"
    /\ result.route[2].land = "Tomorrowland"

\* The example of the spec: park 6, Space Mountain (Tomorrowland, open, 45)
\* then Jungle Cruise (Adventureland, open, 10), no must_do, no budget.
EndToEndExample ==
  /\ park_id = 6 /\ must_do = NoMustDo /\ max_total_time = None
  /\ Len(rides) = 2
  /\ rides[1].name = SpaceMountain /\ rides[1].land = "Tomorrowland"
  /\ rides[1].is_open /\ rides[1].wait_time = 45
  /\ rides[2].name = JungleCruise /\ rides[2].land = "Adventureland"
  /\ rides[2].is_open /\ rides[2].wait_time = 10

\* C11: on the example total_wait_time is 55 and total_walk_time is the
\* one Adventureland-Tomorrowland walk of the table, 10, whichever land
\* comes first.
C11_ExampleTotals ==
  (Done /\ EndToEndExample) =>
    /\ result.total_wait_time = 55
    /\ result.total_walk_time = 10

C11_Witness ==
  /\ Done /\ EndToEndExample
  /\ Len(result.route) = 2
  /\ result.route[1].land = "Tomorrowland"
  /\ result.route[2].walk_from_previous = 10

RECURSIVE AppearanceOrder(_, _)
\* The lands of the rides at positions `idxs`, each at its first appearance.
AppearanceOrder(idxs, seen) ==
  IF idxs = <<>> THEN <<>>
  ELSE LET land == rides[Head(idxs)].land
       IN  IF land \in seen THEN AppearanceOrder(Tail(idxs), seen)
           ELSE <<land>> \o AppearanceOrder(Tail(idxs), seen \cup {land})

\* C17: for a park with no topology the lands are visited in the order in
\* which they first appear among the candidate rides; with a candidate the
\* call succeeds and, with no budget, total_walk_time = 5 * (lands - 1).
C17_UnknownParkKeepsGivenOrder ==
  (Done /\ park_id \notin DOMAIN PARK_LAYOUTS /\ Candidates # {}) =>
    /\ land_order = AppearanceOrder(available_rides, {})
    /\ result.success
    /\ max_total_time = None =>
         result.total_walk_time = 5 * (result.lands_visited - 1)

\* C19: total_time = total_wait_time + total_walk_time in every result;
\* in a successful one ride_count is the length of route and lands_visited
\* the number of distinct lands among its items.
C19_DerivedFieldsConsistent ==
  Done =>
    /\ result.total_time = result.total_wait_time + result.total_walk_time
    /\ result.success =>
         /\ result.ride_count = Len(result.route)
         /\ result.lands_visited =
              Cardinality({result.route[j].land : j \in 1..Len(result.route)})

C19_Witness ==
  /\ Done /\ result.success
  /\ max_total_time = 30
  /\ Len(land_order) = 3
  /\ result.ride_count = 2 /\ result.lands_visited = 2
  /\ result.total_walk_time > 0

\* ------------------------------------------------ the other functions
\* optimize_route is not running.
RouteIdle ==
  /\ park_id = 0
  /\ rides = <<>>
  /\ must_do = NoMustDo
  /\ max_total_time = None
  /\ pc = "idle"
  /\ available_rides = <<>>
  /\ rides_by_land = <<>>
  /\ land_order = <<>>
  /\ route = <<>>
  /\ total_wait_time = 0
  /\ total_walk_time = 0
  /\ current_land = NoLand
  /\ land_idx = 0
  /\ ride_idx = 0
  /\ result = NoResult

\* A park id with no entry in PARK_LAYOUTS.
UnknownPark == 99

\* A land name no layout knows (parse_wait_times' land of the rides that
\* the feed lists outside any land).
General == "General"

\* The lands named in a park's walk_times table.
TableLands(p) ==
  LET walk_times == PARK_LAYOUTS[p].walk_times
  IN  {k[1] : k \in DOMAIN walk_times} \cup {k[2] : k \in DOMAIN walk_times}

\* The land names tried for park p: its own and an unknown one.
LandPool(p) ==
  IF p \in DOMAIN PARK_LAYOUTS THEN TableLands(p) \cup {General}
  ELSE {"Adventureland", "Tomorrowland", General}

\* ---- get_walk_time(p, a, b) followed by get_walk_time(p, b, a)
WalkInit ==
  /\ RouteIdle
  /\ order_call = NoCall
  /\ compare_call = NoCall
  /\ NoThreads
  /\ NoHistory
  /\ sort_call = NoCall
  /\ \E p \in DOMAIN PARK_LAYOUTS \cup {UnknownPark} :
       \E a, b \in LandPool(p) :
         walk_call = [pc |-> "call", park_id |-> p, from_land |-> a,
                      to_land |-> b, there |-> None, back |-> None]

\* Lines 183-203, called with (from_land, to_land).
WalkThere ==
  /\ walk_call.pc = "call"
  /\ walk_call' = [walk_call EXCEPT
                     !.there = get_walk_time(walk_call.park_id,
                                             walk_call.from_land,
                                             walk_call.to_land),
                     !.pc = "back"]
  /\ UNCHANGED <<routeVars, order_call, compare_call, threadVars, histVars,
                 sort_call>>

\* Lines 183-203, called with (to_land, from_land).
WalkBack ==
  /\ walk_call.pc = "back"
  /\ walk_call' = [walk_call EXCEPT
                     !.back = get_walk_time(walk_call.park_id,
                                            walk_call.to_land,
                                            walk_call.from_land),
                     !.pc = "done"]
  /\ UNCHANGED <<routeVars, order_call, compare_call, threadVars, histVars,
                 sort_call>>

WalkNext == WalkThere \/ WalkBack

WalkSpec == WalkInit /\ [][WalkNext]_vars

\* C15: for every park of PARK_LAYOUTS and every two lands, in the table
\* or not, get_walk_time(p, a, b) = get_walk_time(p, b, a).
C15_WalkTimeSymmetric ==
  (walk_call.pc = "done" /\ walk_call.park_id \in DOMAIN PARK_LAYOUTS) =>
    walk_call.there = walk_call.back

C15_Witness ==
  /\ walk_call.pc = "done"
  /\ walk_call.park_id = 7
  /\ walk_call.from_land = "Hollywood Boulevard"
  /\ walk_call.to_land = "Grand Avenue"
  /\ walk_call.there = 4 /\ walk_call.back = 4

\* C16: get_walk_time returns 0 for equal lands, in known and unknown
\* parks; otherwise 5 for a park with no layout; otherwise the value the
\* table stores for the pair in either orientation; otherwise 7.  It
\* returns for every argument.
C16_WalkTimeCases ==
  /\ walk_call.pc = "call" => ENABLED WalkThere
  /\ walk_call.pc \in {"back", "done"} =>
       LET p == walk_call.park_id
           a == walk_call.from_land
           b == walk_call.to_land
           stored == IF p \in DOMAIN PARK_LAYOUTS
                     THEN {k \in DOMAIN PARK_LAYOUTS[p].walk_times :
                             k = <<a, b>> \/ k = <<b, a>>}
                     ELSE {}
       IN  /\ a = b => walk_call.there = 0
           /\ (a # b /\ p \notin DOMAIN PARK_LAYOUTS) => walk_call.there = 5
           /\ (a # b /\ stored # {}) =>
                \E k \in stored : walk_call.there = PARK_LAYOUTS[p].walk_times[k]
           /\ (a # b /\ p \in DOMAIN PARK_LAYOUTS /\ stored = {}) =>
                walk_call.there = 7

C16_Witness ==
  /\ walk_call.pc = "done"
  /\ walk_call.park_id = 64
  /\ walk_call.from_land = "New York"
  /\ walk_call.to_land = "Hollywood"
  /\ walk_call.there = 7

\* ---- get_land_order(park_id, lands_to_visit), statement by statement
\* Largest set of lands handed to get_land_order.
MaxLands == 3

OrderInit ==
  /\ RouteIdle
  /\ walk_call = NoCall
  /\ compare_call = NoCall
  /\ NoThreads
  /\ NoHistory
  /\ sort_call = NoCall
  /\ \E p \in {6, 5, UnknownPark} :
       \E lands \in SUBSET LandPool(p) :
         /\ lands # {}
         /\ Cardinality(lands) <= MaxLands
         /\ order_call = [pc |-> "call", park_id |-> p, lands_to_visit |-> lands,
                          current |-> NoLand, ordered |-> <<>>, remaining |-> {}]

\* Lines 211-228: without a layout the list of the set is returned; with
\* one, `current` is seeded and `ordered`, `remaining` are set up.
SeedLand ==
  /\ order_call.pc = "call"
  /\ IF order_call.park_id \notin DOMAIN PARK_LAYOUTS
     THEN \E listed \in Orderings(order_call.lands_to_visit) :
            order_call' = [order_call EXCEPT !.ordered = listed, !.pc = "done"]
     ELSE \E first \in StartLands(order_call.park_id, order_call.lands_to_visit) :
            order_call' = [order_call EXCEPT
                             !.current = first,
                             !.ordered = <<first>>,
                             !.remaining = RemainingAfter(order_call.lands_to_visit,
                                                          first),
                             !.pc = "loop"]
  /\ UNCHANGED <<routeVars, walk_call, compare_call, threadVars, histVars,
                 sort_call>>

\* Lines 231-238: one iteration of `while remaining`.
NearestStep ==
  /\ order_call.pc = "loop"
  /\ order_call.remaining # {}
  /\ \E next_land \in NearestLands(order_call.park_id, order_call.current,
                                   order_call.remaining) :
       order_call' = [order_call EXCEPT
                        !.ordered = Append(order_call.ordered, next_land),
                        !.remaining = order_call.remaining \ {next_land},
                        !.current = next_land]
  /\ UNCHANGED <<routeVars, walk_call, compare_call, threadVars, histVars,
                 sort_call>>

\* Line 240.
ReturnOrder ==
  /\ order_call.pc = "loop"
  /\ order_call.remaining = {}
  /\ order_call' = [order_call EXCEPT !.pc = "done"]
  /\ UNCHANGED <<routeVars, walk_call, compare_call, threadVars, histVars,
                 sort_call>>

OrderNext == SeedLand \/ NearestStep \/ ReturnOrder

OrderSpec == OrderInit /\ [][OrderNext]_vars

\* The function runs to its end once called: nothing in it waits.
FairOrderSpec == OrderSpec /\ WF_vars(OrderNext)

\* The statement-by-statement call returns what get_land_order lists.
OrderAgrees ==
  order_call.pc = "done" =>
    order_call.ordered \in get_land_order(order_call.park_id,
                                          order_call.lands_to_visit)

\* The elements of a list.
Range(s) == {s[k] : k \in 1..Len(s)}

\* C12: for a park with a layout the first land is the entry land when it
\* is requested, and otherwise a requested land with the least walk time
\* from the entry land; for park 6 and {Fantasyland, Tomorrowland, Main
\* Street, U.S.A.} it is Main Street, U.S.A.
C12_FirstLand ==
  (order_call.pc \in {"loop", "done"}
     /\ order_call.park_id \in DOMAIN PARK_LAYOUTS) =>
    LET lands == order_call.lands_to_visit
        p == order_call.park_id
        entry == PARK_LAYOUTS[p].entry_land
        first == order_call.ordered[1]
    IN  /\ entry \in lands => first = entry
        /\ entry \notin lands =>
             /\ first \in lands
             /\ \A l \in lands :
                  get_walk_time(p, entry, first) <= get_walk_time(p, entry, l)
        /\ (p = 6 /\ lands = {"Fantasyland", "Tomorrowland", MS}) => first = MS

C12_Witness ==
  /\ order_call.pc = "done"
  /\ order_call.park_id = 6
  /\ order_call.lands_to_visit = {"Fantasyland", "Tomorrowland", MS}
  /\ order_call.ordered = <<MS, "Tomorrowland", "Fantasyland">>

\* C13: for a park with a layout every land after the first has the least
\* walk time from its predecessor among the lands not placed before it.
C13_GreedyNearest ==
  (order_call.pc = "done" /\ order_call.park_id \in DOMAIN PARK_LAYOUTS) =>
    LET p == order_call.park_id
        ordered == order_call.ordered
    IN  \A k \in 2..Len(ordered) :
          \A l \in order_call.lands_to_visit \ {ordered[j] : j \in 1..(k - 1)} :
            get_walk_time(p, ordered[k - 1], ordered[k])
              <= get_walk_time(p, ordered[k - 1], l)

C13_Witness ==
  /\ order_call.pc = "done"
  /\ order_call.park_id = 6
  /\ order_call.ordered = <<"Adventureland", "Liberty Square", "Tomorrowland">>

\* C14: for any park and non-empty set of lands the call ends, its list
\* holds every requested land once and nothing else, and the set handed in
\* is left as it was.
C14_TerminatesWithPermutation ==
  /\ <>(order_call.pc = "done")
  /\ [](order_call.pc = "done" =>
          /\ Range(order_call.ordered) = order_call.lands_to_visit
          /\ Len(order_call.ordered) = Cardinality(order_call.lands_to_visit))
  /\ [][order_call'.lands_to_visit = order_call.lands_to_visit]_vars

C14_Witness ==
  /\ order_call.pc = "done"
  /\ order_call.park_id = UnknownPark
  /\ Cardinality(order_call.lands_to_visit) = 3
  /\ Len(order_call.ordered) = 3

\* ---- compare_to_average(current_wait, average)        (data/historical.py)
\* Averages are stored rounded to one decimal; `average` and the results
\* `difference` and `percent_diff` are held in tenths.  percent_diff = None
\* is <<>>, a value v is <<v>>.

\* Largest current wait (minutes) compared.
MaxWait == 120

\* Averages in tenths of a minute: none, 2.5, 16.0, 33.3 and 100.0.
AveragePool == {0, 25, 160, 333, 1000}

\* round(n / d, 0) for d > 0: the nearest integer.  On an exact half the
\* float that Python rounds lies on either side of it, so both neighbours
\* can be the result.
RoundNearest(n, d) ==
  LET q == n \div d
  IN  {x \in {q, q + 1} :
         LET off == n - x * d
         IN  2 * (IF off < 0 THEN -off ELSE off) <= d}

\* StatusOf with the bounds of each bucket excluded.
StatusOf_StrictBounds(percent_diff) ==
  IF percent_diff < -200 THEN "much_lower"
  ELSE IF percent_diff < -100 THEN "lower"
  ELSE IF percent_diff < 100 THEN "typical"
  ELSE IF percent_diff < 200 THEN "higher"
  ELSE "much_higher"

\* Lines 340-349, percent_diff in tenths of a percent.
StatusOf(percent_diff) ==
  IF percent_diff <= -200 THEN "much_lower"
  ELSE IF percent_diff <= -100 THEN "lower"
  ELSE IF percent_diff <= 100 THEN "typical"
  ELSE IF percent_diff <= 200 THEN "higher"
  ELSE "much_higher"

\* The dicts compare_to_average can return.
compare_to_average(current_wait, average) ==
  IF average = 0
  THEN {[difference |-> 10 * current_wait, percent_diff |-> <<>>,
         status |-> "no_baseline"]}
  ELSE LET difference == 10 * current_wait - average
       IN  {[difference |-> difference, percent_diff |-> <<percent_diff>>,
             status |-> StatusOf(percent_diff)] :
              percent_diff \in RoundNearest(1000 * difference, average)}

CompareInit ==
  /\ RouteIdle
  /\ walk_call = NoCall
  /\ order_call = NoCall
  /\ NoThreads
  /\ NoHistory
  /\ sort_call = NoCall
  /\ \E c \in 0..MaxWait, a \in AveragePool :
       compare_call = [pc |-> "call", current_wait |-> c, average |-> a,
                       result |-> NoResult]

\* Lines 328-355.
Compare ==
  /\ compare_call.pc = "call"
  /\ \E r \in compare_to_average(compare_call.current_wait, compare_call.average) :
       compare_call' = [compare_call EXCEPT !.result = r, !.pc = "done"]
  /\ UNCHANGED <<routeVars, walk_call, order_call, threadVars, histVars,
                 sort_call>>

CompareNext == Compare

CompareSpec == CompareInit /\ [][CompareNext]_vars

\* current_wait c against average 100.0 gives percent_diff pd (in tenths)
\* and status st.
ComparesAs(c, pd, st) ==
  (compare_call.current_wait = c /\ compare_call.average = 1000) =>
    /\ compare_call.result.percent_diff = <<pd>>
    /\ compare_call.result.status = st

\* C18: status no_baseline with percent_diff null exactly when average is
\* 0; otherwise percent_diff is (current_wait - average) / average * 100
\* rounded to one decimal and status is much_lower if percent_diff <= -20,
\* lower if <= -10, typical if <= 10, higher if <= 20, else much_higher;
\* with average 100: 80 much_lower, 90 lower, 100 and 110 typical, 111
\* higher.
C18_CompareToAverage ==
  compare_call.pc = "done" =>
    LET r == compare_call.result
        a == compare_call.average
        exact == 1000 * (10 * compare_call.current_wait - a)
    IN  /\ r.status = "no_baseline" <=> a = 0
        /\ r.percent_diff = <<>> <=> a = 0
        /\ a # 0 =>
             LET pd == r.percent_diff[1]
             IN  /\ 2 * (exact - pd * a) <= a
                 /\ 2 * (pd * a - exact) <= a
                 /\ pd <= -200 => r.status = "much_lower"
                 /\ (-200 < pd /\ pd <= -100) => r.status = "lower"
                 /\ (-100 < pd /\ pd <= 100) => r.status = "typical"
                 /\ (100 < pd /\ pd <= 200) => r.status = "higher"
                 /\ 200 < pd => r.status = "much_higher"
        /\ ComparesAs(80, -200, "much_lower")
        /\ ComparesAs(90, -100, "lower")
        /\ ComparesAs(100, 0, "typical")
        /\ ComparesAs(110, 100, "typical")
        /\ ComparesAs(111, 110, "higher")

C18_Witness ==
  /\ compare_call.pc = "done"
  /\ compare_call.current_wait = 110
  /\ compare_call.average = 1000
  /\ compare_call.result.percent_diff = <<100>>
  /\ compare_call.result.status = "typical"

\* ------------------------------------------- two calls at the same time
\* optimize_route is a plain function of its arguments: its locals live in
\* the frame of the call, the rides_by_land dict is made by the call (line
\* 318), PARK_LAYOUTS is only read, and the ride dicts it writes
\* priority_score into are those of the list it was handed.

Calls == {1, 2}

\* The budgets of the two calls: none, and one that some routes exceed.
ThreadBudgets == {None, 30}

\* The ride lists of the two callers: two open rides with a posted wait.
ThreadRideLists ==
  {<<Ride(ps[1], [is_open |-> TRUE, wait_time |-> ws[1]]),
     Ride(ps[2], [is_open |-> TRUE, wait_time |-> ws[2]])>> :
     ps \in {p \in (1..Len(RidePool)) \X (1..Len(RidePool)) : p[1] < p[2]},
     ws \in {<<10, 10>>, <<45, 10>>}}

\* The locals of a call on entry; `rides` names the list of the caller.
Frame(list, p, budget) ==
  [pc |-> "filter", park_id |-> p, rides |-> list, must_do |-> NoMustDo,
   max_total_time |-> budget, available_rides |-> <<>>, land_order |-> <<>>,
   route |-> <<>>, total_wait_time |-> 0, total_walk_time |-> 0,
   current_land |-> NoLand, land_idx |-> 0, ride_idx |-> 0,
   result |-> NoResult]

\* One rides_by_land dict kept at module level for every call.
RidesByLandOf_ModuleLevel(c) == 0

\* The dict that `rides_by_land = {}` (line 318) binds in call c: a new dict
\* for every call.
RidesByLandOf(c) == c

\* Call 1 plans Magic Kingdom, call 2 another park, each on its own list.
ThreadInit ==
  /\ RouteIdle
  /\ walk_call = NoCall
  /\ order_call = NoCall
  /\ compare_call = NoCall
  /\ NoHistory
  /\ sort_call = NoCall
  /\ ride_lists \in [Calls -> ThreadRideLists]
  /\ land_dicts = [d \in {RidesByLandOf(c) : c \in Calls} |-> <<>>]
  /\ \E p \in {5, UnknownPark}, b \in [Calls -> ThreadBudgets] :
       frames = [c \in Calls |-> Frame(c, IF c = 1 THEN 6 ELSE p, b[c])]

\* The ride dict a (list, position) pair of a rides_by_land dict stands for.
RideAt(lists, ref) == lists[ref[1]][ref[2]]

\* Lines 319-333 on the dict `dict`: each available ride of list `list` is
\* appended to the list of its land, which is made first when it is missing.
AddRides(dict, list, rs, avail) ==
  [land \in DOMAIN dict \cup {rs[avail[a]].land : a \in 1..Len(avail)} |->
     LET InLand(k) == rs[k].land = land
         idxs == SelectSeq(avail, InLand)
     IN  (IF land \in DOMAIN dict THEN dict[land] ELSE <<>>)
           \o [j \in 1..Len(idxs) |-> <<list, idxs[j]>>]]

\* Lines 336-337: the list of every land of the dict, sorted by score.
SortLands(dict, lists) ==
  [land \in DOMAIN dict |->
     SortByScore(dict[land],
                 [ref \in {dict[land][j] : j \in 1..Len(dict[land])} |->
                    RideAt(lists, ref)])]

\* Lines 290-315 in call c.
ThreadFilter(c) ==
  LET f == frames[c]
      avail == AvailableRides(ride_lists[f.rides], f.must_do)
  IN  /\ f.pc = "filter"
      /\ frames' = [frames EXCEPT ![c] =
                      IF avail = <<>>
                      THEN [f EXCEPT !.available_rides = avail,
                                     !.result = FailureResult, !.pc = "done"]
                      ELSE [f EXCEPT !.available_rides = avail,
                                     !.pc = "group"]]
      /\ UNCHANGED <<routeVars, walk_call, order_call, compare_call,
                     histVars, sort_call, ride_lists, land_dicts>>

\* Lines 284-287 and 318-337 in call c.
ThreadGroup(c) ==
  LET f == frames[c]
      rs == ride_lists[f.rides]
  IN  /\ f.pc = "group"
      /\ \E current_hour \in Hours, historical_averages \in HistoricalTables :
           ride_lists' = [ride_lists EXCEPT ![f.rides] =
                            ScoredRides(rs, f.available_rides, current_hour,
                                        historical_averages)]
      /\ land_dicts' = [land_dicts EXCEPT ![RidesByLandOf(c)] =
                          SortLands(AddRides(@, f.rides, rs, f.available_rides),
                                    ride_lists')]
      /\ frames' = [frames EXCEPT ![c].pc = "order"]
      /\ UNCHANGED <<routeVars, walk_call, order_call, compare_call,
                     histVars, sort_call>>

\* Lines 339-346 in call c.
ThreadOrder(c) ==
  LET f == frames[c]
  IN  /\ f.pc = "order"
      /\ \E order \in get_land_order(f.park_id,
                                     DOMAIN land_dicts[RidesByLandOf(c)]) :
           frames' = [frames EXCEPT ![c] =
                        [f EXCEPT !.land_order = order, !.land_idx = 1,
                                  !.ride_idx = 1, !.pc = "route"]]
      /\ UNCHANGED <<routeVars, walk_call, order_call, compare_call,
                     histVars, sort_call, ride_lists, land_dicts>>

\* One iteration of the inner loop, lines 351-373, in call c.
ThreadVisitRide(c) ==
  LET f == frames[c]
      land == f.land_order[f.land_idx]
      land_rides == land_dicts[RidesByLandOf(c)][land]
      ride == RideAt(ride_lists, land_rides[f.ride_idx])
      step == IF LandGiven(f.current_land)
              THEN get_walk_time(f.park_id, f.current_land, land) ELSE 0
      walk == IF LandGiven(f.current_land) /\ f.current_land # land
              THEN f.total_walk_time + step ELSE f.total_walk_time
      wait == f.total_wait_time + ride.wait_time
      current_total == wait + walk
      item == [name |-> ride.name, land |-> land, wait_time |-> ride.wait_time,
               walk_from_previous |-> step, cumulative_time |-> current_total]
  IN  /\ f.pc = "route"
      /\ frames' = [frames EXCEPT ![c] =
                      IF BudgetExceeded(f.max_total_time, current_total)
                      THEN [f EXCEPT !.total_wait_time = wait,
                                     !.total_walk_time = walk,
                                     !.pc = "land_check"]
                      ELSE [f EXCEPT !.total_wait_time = wait,
                                     !.total_walk_time = walk,
                                     !.route = Append(@, item),
                                     !.current_land = land,
                                     !.ride_idx = @ + 1,
                                     !.pc = IF f.ride_idx < Len(land_rides)
                                            THEN "route" ELSE "land_check"]]
      /\ UNCHANGED <<routeVars, walk_call, order_call, compare_call,
                     histVars, sort_call, ride_lists, land_dicts>>

\* Lines 375-377 and the advance of the outer loop, in call c.
ThreadLandCheck(c) ==
  LET f == frames[c]
  IN  /\ f.pc = "land_check"
      /\ frames' = [frames EXCEPT ![c] =
                      IF BudgetExceeded(f.max_total_time,
                                        f.total_wait_time + f.total_walk_time)
                      THEN [f EXCEPT !.pc = "return"]
                      ELSE IF f.land_idx < Len(f.land_order)
                      THEN [f EXCEPT !.land_idx = @ + 1, !.ride_idx = 1,
                                     !.pc = "route"]
                      ELSE [f EXCEPT !.pc = "return"]]
      /\ UNCHANGED <<routeVars, walk_call, order_call, compare_call,
                     histVars, sort_call, ride_lists, land_dicts>>

\* Lines 379-387 in call c.
ThreadReturn(c) ==
  LET f == frames[c]
  IN  /\ f.pc = "return"
      /\ frames' = [frames EXCEPT ![c] =
                      [f EXCEPT !.pc = "done",
                                !.result =
                         [success |-> TRUE, route |-> f.route,
                          total_wait_time |-> f.total_wait_time,
                          total_walk_time |-> f.total_walk_time,
                          total_time |-> f.total_wait_time + f.total_walk_time,
                          ride_count |-> Len(f.route),
                          lands_visited |->
                            Cardinality({f.route[k].land :
                                           k \in 1..Len(f.route)})]]]
      /\ UNCHANGED <<routeVars, walk_call, order_call, compare_call,
                     histVars, sort_call, ride_lists, land_dicts>>

\* The scheduler runs one step of either call.
ThreadNext ==
  \E c \in Calls :
    \/ ThreadFilter(c)
    \/ ThreadGroup(c)
    \/ ThreadOrder(c)
    \/ ThreadVisitRide(c)
    \/ ThreadLandCheck(c)
    \/ ThreadReturn(c)

ThreadSpec == ThreadInit /\ [][ThreadNext]_vars

\* ------------------------------------------------- a call on its own
\* What optimize_route returns for given arguments once get_land_order has
\* answered `order`, written as a function of the arguments alone.

\* The available rides in the order in which lines 348-351 reach them.
RECURSIVE Itinerary(_, _)
Itinerary(order, groups) ==
  IF order = <<>> THEN <<>>
  ELSE groups[Head(order)] \o Itinerary(Tail(order), groups)

\* Lines 348-377 over the rides still to visit; `acc` holds route,
\* total_wait_time, total_walk_time and current_land.
RECURSIVE Tour(_, _, _, _, _)
Tour(park, budget, rs, todo, acc) ==
  IF todo = <<>> THEN acc
  ELSE LET ride == rs[Head(todo)]
           step == IF LandGiven(acc.current_land)
                   THEN get_walk_time(park, acc.current_land, ride.land) ELSE 0
           walk == IF LandGiven(acc.current_land) /\ acc.current_land # ride.land
                   THEN acc.total_walk_time + step ELSE acc.total_walk_time
           wait == acc.total_wait_time + ride.wait_time
       IN  IF BudgetExceeded(budget, wait + walk)
           THEN [acc EXCEPT !.total_wait_time = wait, !.total_walk_time = walk]
           ELSE Tour(park, budget, rs, Tail(todo),
                     [route |-> Append(acc.route,
                                  [name |-> ride.name, land |-> ride.land,
                                   wait_time |-> ride.wait_time,
                                   walk_from_previous |-> step,
                                   cumulative_time |-> wait + walk]),
                      total_wait_time |-> wait, total_walk_time |-> walk,
                      current_land |-> ride.land])

\* The lists get_land_order can answer for these arguments.
AloneOrders(park, rs, md) ==
  LET avail == AvailableRides(rs, md)
  IN  IF avail = <<>> THEN {<<>>}
      ELSE get_land_order(park, {rs[avail[a]].land : a \in 1..Len(avail)})

\* Lines 336-387 for the scored rides: nothing after line 333 reads the hour
\* or the table of averages, only the dicts of the available rides.
ResultOf(park, scored, avail, budget, order) ==
  LET tour == Tour(park, budget, scored,
                   Itinerary(order, GroupByLand(scored, avail)),
                   [route |-> <<>>, total_wait_time |-> 0,
                    total_walk_time |-> 0, current_land |-> NoLand])
  IN  IF avail = <<>> THEN FailureResult
      ELSE [success |-> TRUE, route |-> tour.route,
            total_wait_time |-> tour.total_wait_time,
            total_walk_time |-> tour.total_walk_time,
            total_time |-> tour.total_wait_time + tour.total_walk_time,
            ride_count |-> Len(tour.route),
            lands_visited |->
              Cardinality({tour.route[k].land : k \in 1..Len(tour.route)})]

\* Lines 307-387 for the available rides `avail` (positions in rs).
ResultFrom(park, rs, avail, budget, order, current_hour, averages) ==
  ResultOf(park, ScoredRides(rs, avail, current_hour, averages),
           avail, budget, order)

AloneResultAt(park, rs, md, budget, order, current_hour, averages) ==
  ResultFrom(park, rs, AvailableRides(rs, md), budget, order, current_hour,
             averages)

\* The result with the hour and the table of averages of some call.
AloneResult(park, rs, md, budget, order) ==
  AloneResultAt(park, rs, md, budget, order, CHOOSE h \in Hours : TRUE,
                CHOOSE t \in HistoricalTables : TRUE)

\* The single call of Spec returns what AloneResult says.
AloneAgrees ==
  Done => /\ land_order \in AloneOrders(park_id, rides, must_do)
          /\ result = AloneResult(park_id, rides, must_do, max_total_time,
                                  land_order)

\* C20: two calls of optimize_route for different parks, each on its own
\* ride list, do not interfere however their steps interleave: a finished
\* call has returned what it returns when it runs alone on its arguments,
\* and a step of one call leaves the frame, the ride list and the
\* rides_by_land dict of the other call as they were.
C20_CallsDoNotInterfere ==
  /\ [](\A c \in DOMAIN frames :
          frames[c].pc = "done" =>
            LET f == frames[c]
                rs == ride_lists[f.rides]
            IN  /\ f.land_order \in AloneOrders(f.park_id, rs, f.must_do)
                /\ f.result = AloneResult(f.park_id, rs, f.must_do,
                                          f.max_total_time, f.land_order))
  /\ [][\A c, d \in DOMAIN frames :
          c # d /\ frames'[c] # frames[c] =>
            /\ frames'[d] = frames[d]
            /\ ride_lists'[frames[d].rides] = ride_lists[frames[d].rides]
            /\ land_dicts'[RidesByLandOf(d)] = land_dicts[RidesByLandOf(d)]]_vars

\* Both calls have returned a route of the same two rides, one for Magic
\* Kingdom and one for EPCOT, with different walk times.
C20_Witness ==
  /\ frames # <<>>
  /\ \A c \in Calls : frames[c].pc = "done" /\ frames[c].result.ride_count = 2
  /\ frames[1].park_id = 6 /\ frames[2].park_id = 5
  /\ [k \in 1..2 |-> ride_lists[1][k].name]
       = [k \in 1..2 |-> ride_lists[2][k].name]
  /\ frames[1].result.total_walk_time # frames[2].result.total_walk_time

\* ------------------------------------------------ historical averages
\* data/historical.py: record_wait_times inserts rows into wait_times, and
\* get_ride_averages_for_park and get_historical_average aggregate them.
\* The table is held as the number of rows carrying each combination of
\* column values (no query reads the id or recorded_at columns).

\* Most rows the table holds.
MaxSamples == 3

\* The ride dicts handed to record_wait_times: name, wait_time, is_open.
\* A closed ride can still post a wait, and an open one can post 0.
RecordRides == {
  [name |-> SpaceMountain, wait_time |-> 45, is_open |-> TRUE],
  [name |-> SpaceMountain, wait_time |-> 45, is_open |-> FALSE],
  [name |-> BigThunderMountain, wait_time |-> 10, is_open |-> TRUE],
  [name |-> JungleCruise, wait_time |-> 0, is_open |-> TRUE] }

\* The `rides` argument of record_wait_times.
RecordLists ==
  {<<r>> : r \in RecordRides} \cup
  {<<[name |-> SpaceMountain, wait_time |-> 45, is_open |-> TRUE],
     [name |-> BigThunderMountain, wait_time |-> 10, is_open |-> TRUE]>>}

\* park_id of the call with now.weekday() and now.hour when it runs.
RecordStamps == {
  [park_id |-> 6, day_of_week |-> 0, hour_of_day |-> 9],
  [park_id |-> 6, day_of_week |-> 5, hour_of_day |-> 14],
  [park_id |-> 5, day_of_week |-> 0, hour_of_day |-> 9] }

\* The row that lines 128-160 insert for one ride.
Row(stamp, ride) ==
  [park_id |-> stamp.park_id, ride_name |-> ride.name,
   wait_minutes |-> ride.wait_time, is_open |-> ride.is_open,
   day_of_week |-> stamp.day_of_week, hour_of_day |-> stamp.hour_of_day]

Rows == {Row(stamp, ride) : stamp \in RecordStamps, ride \in RecordRides}

RECURSIVE SumOver(_, _)
\* The sum of weight[r] over the rows r of `rows`.
SumOver(rows, weight) ==
  IF rows = {} THEN 0
  ELSE LET r == CHOOSE x \in rows : TRUE
       IN  weight[r] + SumOver(rows \ {r}, weight)

\* COUNT(*) over the rows of `rows`.
CountRows(table, rows) == SumOver(rows, table)

\* record_wait_times, lines 117-165: one INSERT per ride of the list.
InsertRows(table, stamp, new_rides) ==
  [r \in Rows |->
     table[r] + Cardinality({k \in 1..Len(new_rides) : Row(stamp, new_rides[k]) = r})]

HistInit ==
  /\ RouteIdle
  /\ walk_call = NoCall
  /\ order_call = NoCall
  /\ compare_call = NoCall
  /\ NoThreads
  /\ wait_times = [r \in Rows |-> 0]
  /\ query_call = NoCall
  /\ sort_call = NoCall

Record ==
  /\ \E stamp \in RecordStamps, new_rides \in RecordLists :
       /\ CountRows(wait_times, Rows) + Len(new_rides) <= MaxSamples
       /\ wait_times' = InsertRows(wait_times, stamp, new_rides)
  /\ UNCHANGED <<routeVars, walk_call, order_call, compare_call, threadVars,
                 sort_call, query_call>>

\* `AND day_of_week = ?` is added when the argument `is not None`: 0
\* (Monday, midnight) is a filter like any other value.
FilterMatches(value, filter) == filter = None \/ value = filter

\* OpenWithWait without the is_open test.
OpenWithWait_IgnoresOpen(r) == r.wait_minutes > 0

\* `is_open = 1 AND wait_minutes > 0`; a NULL wait is not > 0.
OpenWithWait(r) == r.is_open /\ r.wait_minutes > 0

\* The kinds of row a WHERE clause with these tests selects.
Selected(table, park, day, hour) ==
  {r \in Rows : /\ table[r] > 0
                /\ r.park_id = park
                /\ OpenWithWait(r)
                /\ FilterMatches(r.day_of_week, day)
                /\ FilterMatches(r.hour_of_day, hour)}

\* AVG, MIN, MAX and COUNT(*) over the rows of the kinds `rows` (not empty);
\* the average is round(avg, 1) in tenths, either neighbour on a tie.
Aggregates(table, rows) ==
  LET sample_count == CountRows(table, rows)
      total == SumOver(rows, [r \in Rows |-> table[r] * r.wait_minutes])
  IN  {[average |-> a,
        min |-> CHOOSE w \in {r.wait_minutes : r \in rows} :
                  \A r \in rows : w <= r.wait_minutes,
        max |-> CHOOSE w \in {r.wait_minutes : r \in rows} :
                  \A r \in rows : w >= r.wait_minutes,
        sample_count |-> sample_count] :
       a \in RoundNearest(10 * total, sample_count)}

\* Lines 247-325: GROUP BY ride_name, one dict entry per group.  The set of
\* dicts the call can return (they differ in the rounding of a tie only).
get_ride_averages_for_park(table, park, day, hour) ==
  LET rows == Selected(table, park, day, hour)
      names == {r.ride_name : r \in rows}
      SamplesOf(n) == {r \in rows : r.ride_name = n}
  IN  {d \in [names -> UNION {Aggregates(table, SamplesOf(n)) : n \in names}] :
         \A n \in names : d[n] \in Aggregates(table, SamplesOf(n))}

RECURSIVE Like(_, _)
\* SQL `text LIKE pattern`: % stands for any run of characters, _ for any
\* one character.
Like(pattern, text) ==
  IF pattern = <<>> THEN text = <<>>
  ELSE IF Head(pattern) = "%"
  THEN \E k \in 0..Len(text) :
         Like(Tail(pattern), SubSeq(text, k + 1, Len(text)))
  ELSE /\ text # <<>>
       /\ Head(pattern) = "_" \/ Head(pattern) = Head(text)
       /\ Like(Tail(pattern), Tail(text))

\* `LOWER(ride_name) LIKE ?` with the parameter f"%{ride_name.lower()}%".
NameMatches(stored_name, ride_name) ==
  Like(<<"%">> \o lower(ride_name) \o <<"%">>, lower(stored_name))

\* What callers search for: a word two ride names hold in another case, a
\* text with the character _, and a word no ride name holds.
SearchTerms == {
  <<"M", "O", "U", "N", "T", "A", "I", "N">>,
  <<"e", "_", "m">>,
  <<"h", "a", "u", "n", "t", "e", "d">> }

\* NameMatches for every stored name and search term.
NameMatchTable ==
  [n \in {r.name : r \in RecordRides}, s \in SearchTerms |-> NameMatches(n, s)]

\* Lines 169-244: one aggregate row over every selected sample whose name
\* matches; None (<<>>) when COUNT(*) is 0, else <<stat>>.
get_historical_average(table, park, ride_name, day, hour) ==
  LET rows == {r \in Selected(table, park, day, hour) :
                 NameMatchTable[r.ride_name, ride_name]}
  IN  IF CountRows(table, rows) > 0
      THEN {<<st>> : st \in Aggregates(table, rows)}
      ELSE {<<>>}

\* The park asked about; the table also holds rows of another park.
QueryParks == {6}

\* day_of_week and hour_of_day of a query: omitted, or given.
QueryDays == {None, 0}

QueryHours == {None, 14}

RideAverages ==
  /\ \E park \in QueryParks, day \in QueryDays, hour \in QueryHours :
       \E res \in get_ride_averages_for_park(wait_times, park, day, hour) :
         query_call' = [pc |-> "get_ride_averages_for_park", park_id |-> park,
                        ride_name |-> <<>>, day_of_week |-> day,
                        hour_of_day |-> hour, result |-> res]
  /\ UNCHANGED <<routeVars, walk_call, order_call, compare_call, threadVars,
                 sort_call, wait_times>>

HistoricalAverage ==
  /\ \E park \in QueryParks, s \in SearchTerms,
        day \in QueryDays, hour \in QueryHours :
       \E res \in get_historical_average(wait_times, park, s, day, hour) :
         query_call' = [pc |-> "get_historical_average", park_id |-> park,
                        ride_name |-> s, day_of_week |-> day,
                        hour_of_day |-> hour, result |-> res]
  /\ UNCHANGED <<routeVars, walk_call, order_call, compare_call, threadVars,
                 sort_call, wait_times>>

HistNext == Record \/ RideAverages \/ HistoricalAverage

HistSpec == HistInit /\ [][HistNext]_vars

\* The rows of the table that count for a query q of a park: open, with a
\* wait above 0, and equal to each filter that q gives.
Contributing(table, q) ==
  {r \in Rows : /\ table[r] > 0
                /\ r.park_id = q.park_id
                /\ r.is_open
                /\ r.wait_minutes > 0
                /\ q.day_of_week # None => r.day_of_week = q.day_of_week
                /\ q.hour_of_day # None => r.hour_of_day = q.hour_of_day}

\* A step that answers a query of the function `fn`.
Answers(fn) ==
  /\ wait_times' = wait_times
  /\ query_call' # query_call
  /\ query_call'.pc = fn

\* sample_count, min and max of `stat` are those of the rows `rows`.
StatOver(stat, table, rows) ==
  /\ stat.sample_count = SumOver(rows, table)
  /\ stat.sample_count >= 1
  /\ \E r \in rows : r.wait_minutes = stat.min
  /\ \A r \in rows : stat.min <= r.wait_minutes /\ r.wait_minutes <= stat.max
  /\ \E r \in rows : r.wait_minutes = stat.max
  /\ stat.min >= 1

\* C21: get_ride_averages_for_park returns one entry per exact ride name
\* with a contributing sample (the park's, open, wait above 0, matching the
\* given day and hour), and the sample_count, min and max of each entry are
\* those of exactly these samples, so sample_count >= 1 and min >= 1.
C21_AveragesOverContributingSamples ==
  [][Answers("get_ride_averages_for_park") =>
       LET q == query_call'
           rows == Contributing(wait_times, q)
       IN  /\ DOMAIN q.result = {r.ride_name : r \in rows}
           /\ \A n \in DOMAIN q.result :
                StatOver(q.result[n], wait_times,
                         {r \in rows : r.ride_name = n})]_vars

\* A table with an open and a closed Space Mountain sample of park 6 and one
\* of another park, answered with a single Space Mountain sample.
C21_Witness ==
  /\ query_call.pc = "get_ride_averages_for_park"
  /\ query_call.day_of_week = 0
  /\ DOMAIN query_call.result = {SpaceMountain}
  /\ query_call.result[SpaceMountain].sample_count = 1
  /\ \E a, b, c \in Rows :
       /\ wait_times[a] = 1 /\ wait_times[b] = 1 /\ wait_times[c] = 1
       /\ a.ride_name = SpaceMountain /\ a.park_id = 6 /\ a.is_open
       /\ b.ride_name = SpaceMountain /\ b.park_id = 6 /\ ~b.is_open
       /\ c.ride_name = SpaceMountain /\ c.park_id = 5 /\ c.is_open
       /\ a.day_of_week = 0 /\ b.day_of_week = 0

\* Whether a stored name holds the search term, both lowered, for every
\* stored name and search term.
HoldsTerm ==
  [n \in {r.name : r \in RecordRides}, s \in SearchTerms |->
     Contains(lower(n), lower(s))]

\* C22: get_historical_average pools every contributing sample of the park
\* whose ride name contains the search text case-insensitively into one
\* stat, and returns None exactly when there is no such sample.
C22_PoolsSamplesContainingText ==
  [][Answers("get_historical_average") =>
       LET q == query_call'
           rows == {r \in Contributing(wait_times, q) :
                      HoldsTerm[r.ride_name, q.ride_name]}
       IN  /\ q.result = <<>> <=> rows = {}
           /\ q.result # <<>> => StatOver(q.result[1], wait_times, rows)]_vars

\* ------------------------------------------------- malformed ride dicts
\* optimize_route on a list in which one dict has no "name" key.
MalformedRideLists ==
  UNION {{[rl EXCEPT ![k].name = NoName] : k \in 1..Len(rl)} :
           rl \in {l \in RideLists : Len(l) \in 1..2}}

MalformedInit ==
  /\ park_id \in ParkIds
  /\ rides \in MalformedRideLists
  /\ must_do \in MustDoLists
  /\ max_total_time \in Budgets
  /\ pc = "filter"
  /\ available_rides = <<>>
  /\ rides_by_land = <<>>
  /\ land_order = <<>>
  /\ route = <<>>
  /\ total_wait_time = 0
  /\ total_walk_time = 0
  /\ current_land = NoLand
  /\ land_idx = 0
  /\ ride_idx = 0
  /\ result = NoResult
  /\ walk_call = NoCall
  /\ order_call = NoCall
  /\ compare_call = NoCall
  /\ NoThreads
  /\ NoHistory
  /\ sort_call = NoCall

MalformedSpec == MalformedInit /\ [][Next]_vars

\* C23: when a ride dict handed to optimize_route has no name, the call
\* raises instead of returning a result, whatever the other fields of the
\* dict, the budget and must_do are.
C23_MissingNameRaises ==
  (Done /\ \E k \in 1..Len(rides) : rides[k].name = NoName)
    => result = KeyErrorRaised

\* ------------------------------------------ the route of a single call
\* A result with a route (neither the failure dict nor an exception).
Routed == Done /\ result # KeyErrorRaised /\ result.success

\* The position in the input list of the ride of route item j (the rides of
\* a list have different names).
InputPosition(j) ==
  CHOOSE k \in 1..Len(rides) : rides[k].name = result.route[j].name

\* C24: within each land the rides of the route come in ascending order of
\* priority score, that is (neutral multiplier) of wait_time, and rides of a
\* land with equal score keep their order of the input list.
C24_AscendingWithinLand ==
  Routed =>
    \A i, j \in 1..Len(result.route) :
      (i < j /\ result.route[i].land = result.route[j].land) =>
        /\ rides[InputPosition(i)].priority_score
             <= rides[InputPosition(j)].priority_score
        /\ result.route[i].wait_time <= result.route[j].wait_time
        /\ result.route[i].wait_time = result.route[j].wait_time
             => InputPosition(i) < InputPosition(j)

\* Pirates listed before Jungle Cruise with the same wait: the route keeps
\* Pirates before Jungle Cruise.
C24_Witness ==
  /\ Routed
  /\ \E i, j \in 1..Len(result.route) :
       /\ i < j
       /\ result.route[i].name = PiratesOfTheCaribbean
       /\ result.route[j].name = JungleCruise
       /\ result.route[i].wait_time = result.route[j].wait_time
       /\ InputPosition(i) < InputPosition(j)

\* ------------------------------------------- scoring within one land
\* Lines 324-337 for two rides of one land that post the same wait, with the
\* value of calculate_historical_priority for each left open: the function
\* is the documented extension point (its docstring: above 1.0 the ride is
\* to be prioritized, below 1.0 it can wait).

\* Multipliers in tenths: below, at and above 1.0.
Multipliers == {5, 10, 15, 20}

SortInit ==
  /\ RouteIdle
  /\ walk_call = NoCall
  /\ order_call = NoCall
  /\ compare_call = NoCall
  /\ NoThreads
  /\ NoHistory
  /\ \E wait \in 1..MaxWait, m \in [1..2 -> Multipliers] :
       sort_call = [pc |-> "score", wait_time |-> wait,
                    historical_priority |-> m,
                    land_rides |-> <<[priority_score |-> None],
                                     [priority_score |-> None]>>,
                    sorted |-> <<>>]

\* Line 332 for both rides.
ScoreRides ==
  /\ sort_call.pc = "score"
  /\ sort_call' =
       [sort_call EXCEPT
          !.land_rides =
             [k \in 1..2 |->
                [priority_score |->
                   Score(sort_call.wait_time,
                         sort_call.historical_priority[k])]],
          !.pc = "sort"]
  /\ UNCHANGED <<routeVars, walk_call, order_call, compare_call, threadVars,
                 histVars>>

\* Lines 336-337 for the land of the two rides.
SortLand ==
  /\ sort_call.pc = "sort"
  /\ sort_call' = [sort_call EXCEPT
                     !.sorted = SortByScore(<<1, 2>>, sort_call.land_rides),
                     !.pc = "done"]
  /\ UNCHANGED <<routeVars, walk_call, order_call, compare_call, threadVars,
                 histVars>>

SortNext == ScoreRides \/ SortLand

SortSpec == SortInit /\ [][SortNext]_vars

BlankLandRideLists ==
  UNION {{[rl EXCEPT ![k].land = ""] : k \in 1..Len(rl)} :
           rl \in {l \in RideLists : Len(l) \in 1..2}}

BlankLandInit ==
  /\ park_id \in ParkIds
  /\ rides \in BlankLandRideLists
  /\ must_do \in MustDoLists
  /\ max_total_time \in Budgets
  /\ pc = "filter"
  /\ available_rides = <<>>
  /\ rides_by_land = <<>>
  /\ land_order = <<>>
  /\ route = <<>>
  /\ total_wait_time = 0
  /\ total_walk_time = 0
  /\ current_land = NoLand
  /\ land_idx = 0
  /\ ride_idx = 0
  /\ result = NoResult
  /\ walk_call = NoCall
  /\ order_call = NoCall
  /\ compare_call = NoCall
  /\ NoThreads
  /\ NoHistory
  /\ sort_call = NoCall

BlankLandSpec == BlankLandInit /\ [][Next]_vars

RECURSIVE SumWalks(_)
SumWalks(items) ==
  IF items = <<>> THEN 0
  ELSE items[1].walk_from_previous + SumWalks(Tail(items))

\* C26: walk_from_previous is 0 for the first item and for an item in the
\* land of the item before it, and get_walk_time(park_id, land of the item
\* before, land of the item) for an item in another land; with no budget
\* total_walk_time is the sum of walk_from_previous over the route.
C26_WalkFromPrevious ==
  Routed =>
    /\ \A j \in 1..Len(result.route) :
         result.route[j].walk_from_previous =
           IF j = 1 THEN 0
           ELSE IF result.route[j - 1].land = result.route[j].land THEN 0
           ELSE get_walk_time(park_id, result.route[j - 1].land,
                              result.route[j].land)
    /\ max_total_time = None =>
         result.total_walk_time = SumWalks(result.route)

\* wait_time plus walk_from_previous over the items.
RECURSIVE SumItemTimes(_)
SumItemTimes(items) ==
  IF items = <<>> THEN 0
  ELSE items[1].wait_time + items[1].walk_from_previous
         + SumItemTimes(Tail(items))

\* C27: the cumulative_time of each item of a returned route is the sum of
\* wait_time and walk_from_previous over the items up to and including it,
\* and so does not decrease along the route.
C27_CumulativeIsRunningTotal ==
  Routed =>
    \A j \in 1..Len(result.route) :
      /\ result.route[j].cumulative_time
           = SumItemTimes(SubSeq(result.route, 1, j))
      /\ j > 1 => result.route[j - 1].cumulative_time
                    <= result.route[j].cumulative_time

\* A route of three rides over two lands: 10, then 10 in the same land, then
\* 45 after a walk of 10 minutes.
C27_Witness ==
  /\ Routed
  /\ Len(result.route) = 3
  /\ result.route[2].walk_from_previous = 0
  /\ result.route[2].cumulative_time = 20
  /\ result.route[3].walk_from_previous = 10
  /\ result.route[3].cumulative_time = 75

\* The route the call returns for the same rides, must_do and land order
\* when no budget is given.
UnboundedRoute ==
  ResultOf(park_id, rides, available_rides, None, land_order).route

\* C28: with a positive budget the route is a prefix of the route returned
\* with no budget for the same rides, must_do and land order; it ends right
\* before the first ride whose cumulative total exceeds the budget, and no
\* later ride is emitted.
C28_BudgetRouteIsPrefix ==
  (Routed /\ max_total_time > 0) =>
    LET full == UnboundedRoute
        n == Len(result.route)
    IN  /\ n <= Len(full)
        /\ result.route = SubSeq(full, 1, n)
        /\ \A j \in 1..n : full[j].cumulative_time <= max_total_time
        /\ n < Len(full) => full[n + 1].cumulative_time > max_total_time

\* Budget 30 and three rides: one ride is emitted, the second would exceed
\* the budget, and the third is not emitted either.
C28_Witness ==
  /\ Routed
  /\ max_total_time = 30
  /\ Len(result.route) = 1
  /\ Len(UnboundedRoute) = 3
  /\ UnboundedRoute[3].wait_time = 10

\* The positions of the route at which the land differs from the item before.
LandChanges ==
  {j \in 2..Len(result.route) :
     result.route[j - 1].land # result.route[j].land}

\* The rides of each land are next to each other in the route.
LandsConsecutive ==
  \A i, j, k \in 1..Len(result.route) :
    (i < j /\ j < k /\ result.route[i].land = result.route[k].land)
      => result.route[j].land = result.route[i].land

\* C29: in every returned route the rides of each land are consecutive, and
\* the number of positions where the land changes is lands_visited - 1.
C29_LandChangesCountLands ==
  Routed =>
    /\ LandsConsecutive
    /\ Cardinality(LandChanges) = result.lands_visited - 1

\* C29 as amended: the count holds for a route that is not empty; an empty
\* route has lands_visited 0.
C29_LandChangesCountLandsOfNonEmptyRoute ==
  Routed =>
    /\ LandsConsecutive
    /\ result.route # <<>> =>
         Cardinality(LandChanges) = result.lands_visited - 1
    /\ result.route = <<>> => result.lands_visited = 0

\* Three rides over two lands, the two rides of one land next to each other.
C29_Witness ==
  /\ Routed
  /\ Len(result.route) = 3
  /\ result.lands_visited = 2
  /\ Cardinality(LandChanges) = 1

\* C30: the result does not depend on historical_averages or on the hour:
\* whatever the hour and the table of averages, the available rides get the
\* scores the call gave them (the multiplier being 1.0 and the score the
\* wait_time), and the call returns the result computed from those scores.
C30_ResultIgnoresHourAndAverages ==
  (Done /\ result # KeyErrorRaised) =>
    /\ \A h \in Hours, t \in HistoricalTables :
         ScoredRides(rides, available_rides, h, t) = rides
    /\ \A k \in 1..Len(rides) :
         rides[k].priority_score \in {None, 100 * rides[k].wait_time}
    /\ result = ResultOf(park_id, rides, available_rides, max_total_time,
                         land_order)

\* A returned route with Jungle Cruise and Pirates of one land and the same
\* wait, in the order of the input: only the scores can tell them apart.
C30_Witness ==
  /\ Routed
  /\ \E i, j \in 1..Len(result.route) :
       /\ i < j
       /\ result.route[i].name = JungleCruise
       /\ result.route[j].name = PiratesOfTheCaribbean
       /\ result.route[i].wait_time = result.route[j].wait_time
  /\ \A k \in 1..Len(rides) : rides[k].priority_score = 100 * rides[k].wait_time

====
